---- MODULE Spec2Model ----
(***************************************************************************)
(* LiveTrafficVisualizer (src/unnamed/part_000): the city grid, the car    *)
(* spawner, the motion tick, the four path searches and the React          *)
(* controller that runs them.                                              *)
(*                                                                         *)
(* Conventions of the model                                                *)
(*  - a point {x, y} is the record [x |-> .., y |-> ..]; the string key    *)
(*    `${x},${y}` of the visited sets and parent maps is Key(p);           *)
(*  - a grid is a function y -> x -> cell, as the array grid[y][x];        *)
(*  - a car position is a fixed-point number: the integer p stands for     *)
(*    the real p / Scale;                                                  *)
(*  - a search is a record holding the locals of the async function; one   *)
(*    *Step is the code between two suspension points (one loop turn).     *)
(*  - a React event handler together with the re-render it causes is one   *)
(*    atomic step: a callback always closes over the last committed state. *)
(***************************************************************************)
EXTENDS Integers, Sequences, FiniteSets, TLC

(* ------------------------------------------------------------------ *)
(* Bounds of the model                                                 *)
(* ------------------------------------------------------------------ *)

\* The grid dimensions (60 and 120 in the source) scaled down.
GRID_ROWS == 5
GRID_COLS == 3

\* Number of cells of a search-input snapshot that may be open; they fill a
\* strip of StripRows rows column by column, every other cell is a wall.
SnapCells == 9

\* Positions are multiples of 1 / Scale.
Scale == 2

(* ------------------------------------------------------------------ *)
(* Points, cells, grids                                                *)
(* ------------------------------------------------------------------ *)

Point(px, py) == [x |-> px, y |-> py]

\* JavaScript null for startPoint / endPoint.
null == [x |-> -1, y |-> -1]

\* The template string `${x},${y}`.
Key(p) == <<p.x, p.y>>

Rows == 0 .. (GRID_ROWS - 1)
Cols == 0 .. (GRID_COLS - 1)
AllPoints == {Point(px, py) : px \in Cols, py \in Rows}

WallCell == [isWall |-> TRUE, isRoad |-> FALSE, hasCar |-> FALSE]
RoadCell == [isWall |-> FALSE, isRoad |-> TRUE, hasCar |-> FALSE]

\* for (v = start; v < limit; v += step)
Carved(v, start, step, limit) == v >= start /\ v < limit /\ (v - start) % step = 0

\* Mutant: the two loops that carve the vertical roads are missing.
CityGridOfRowsOnly(rows, cols) ==
  [py \in 0 .. (rows - 1) |->
    [px \in 0 .. (cols - 1) |->
      IF \/ \E r \in 0 .. 1 : Carved(py - r, 8, 12, rows)
         \/ Carved(py, 4, 24, rows)
      THEN RoadCell ELSE WallCell]]

\* The four carving loops of initializeCityGrid for a rows x cols grid.
CityGridOf(rows, cols) ==
  [py \in 0 .. (rows - 1) |->
    [px \in 0 .. (cols - 1) |->
      IF \/ \E r \in 0 .. 1 : Carved(py - r, 8, 12, rows)
         \/ \E r \in 0 .. 1 : Carved(px - r, 8, 16, cols)
         \/ Carved(py, 4, 24, rows)
         \/ Carved(px, 4, 32, cols)
      THEN RoadCell ELSE WallCell]]

initializeCityGrid == CityGridOf(GRID_ROWS, GRID_COLS)

(* ------------------------------------------------------------------ *)
(* getNeighbors and the heuristic                                      *)
(* ------------------------------------------------------------------ *)

\* const directions = [[0, 1], [1, 0], [0, -1], [-1, 0]], read as [dx, dy].
directions == << <<0, 1>>, <<1, 0>>, <<0, -1>>, <<-1, 0>> >>

\* Mutant: the hasCar test is missing.
InBoundsNotWall(currentGrid, newX, newY) ==
  /\ newX >= 0
  /\ newX < GRID_COLS
  /\ newY >= 0
  /\ newY < GRID_ROWS
  /\ ~currentGrid[newY][newX].isWall

InBoundsAndFree(currentGrid, newX, newY) ==
  /\ newX >= 0
  /\ newX < GRID_COLS
  /\ newY >= 0
  /\ newY < GRID_ROWS
  /\ ~currentGrid[newY][newX].isWall
  /\ ~currentGrid[newY][newX].hasCar

getNeighbors(node, currentGrid) ==
  LET cand == [i \in 1 .. 4 |-> Point(node.x + directions[i][1], node.y + directions[i][2])]
  IN  SelectSeq(cand, LAMBDA p : InBoundsAndFree(currentGrid, p.x, p.y))

Abs(n) == IF n < 0 THEN -n ELSE n

heuristic(node, goal) == Abs(node.x - goal.x) + Abs(node.y - goal.y)

(* ------------------------------------------------------------------ *)
(* Helpers shared by the searches                                      *)
(* ------------------------------------------------------------------ *)

\* Mutant: while (parent.has(key(curr))) in place of while (curr): the walk
\* stops before the cell that has no parent.
RECURSIVE WalkParentsBelowRoot(_, _)
WalkParentsBelowRoot(parent, curr) ==
  IF Key(curr) \in DOMAIN parent
  THEN Append(WalkParentsBelowRoot(parent, parent[Key(curr)]), Point(curr.x, curr.y))
  ELSE << >>

\* while (curr) { path.unshift(curr); curr = parent.get(key(curr)); }
RECURSIVE WalkParents(_, _)
WalkParents(parent, curr) ==
  IF Key(curr) \in DOMAIN parent
  THEN Append(WalkParents(parent, parent[Key(curr)]), Point(curr.x, curr.y))
  ELSE << Point(curr.x, curr.y) >>

\* parent.set(key(n), current) for every n of the sequence ns.
SetAll(parent, ns, current) ==
  LET keys == {Key(ns[i]) : i \in 1 .. Len(ns)}
  IN  [k \in (DOMAIN parent) \cup keys |-> IF k \in keys THEN current ELSE parent[k]]

\* Array.prototype.sort with comparator a.f - b.f or a.dist - b.dist (a
\* stable sort) on a sequence of <<rank, element>> pairs: e is inserted
\* after every pair whose rank is not greater.
RECURSIVE InsertByRank(_, _)
InsertByRank(sorted, e) ==
  IF sorted = << >> THEN << e >>
  ELSE IF e[1] < Head(sorted)[1] THEN << e >> \o sorted
  ELSE << Head(sorted) >> \o InsertByRank(Tail(sorted), e)

RECURSIVE SortPairs(_)
SortPairs(ps) ==
  IF ps = << >> THEN << >>
  ELSE InsertByRank(SortPairs(SubSeq(ps, 1, Len(ps) - 1)), ps[Len(ps)])

\* Mutant: the comparator is reversed (b - a).
StableSortDescending(s, ranks) ==
  LET sorted == SortPairs([i \in 1 .. Len(s) |-> <<0 - ranks[i], s[i]>>])
  IN  [i \in 1 .. Len(s) |-> sorted[i][2]]

StableSort(s, ranks) ==
  LET sorted == SortPairs([i \in 1 .. Len(s) |-> <<ranks[i], s[i]>>])
  IN  [i \in 1 .. Len(s) |-> sorted[i][2]]

\* The locals of one search: frontier is the stack / queue / openSet /
\* priorityQueue, visited the visited or closed set, parent the parent or
\* cameFrom map, distances Dijkstra's array (absent key = Infinity).
NewSearch(alg, first) ==
  [alg |-> alg, frontier |-> << first >>, visited |-> {}, parent |-> << >>,
   distances |-> << >>, exploredCount |-> 0, returned |-> FALSE, path |-> << >>]

\* Mutant: path.push(curr) in place of path.unshift(curr): the path runs from
\* end back to start.
ReturnEndFirst(s, path, exploredCount) ==
  [s EXCEPT !.returned = TRUE,
            !.path = [k \in 1 .. Len(path) |-> path[Len(path) + 1 - k]],
            !.exploredCount = exploredCount,
            !.frontier = << >>]

Return(s, path, exploredCount) ==
  [s EXCEPT !.returned = TRUE, !.path = path, !.exploredCount = exploredCount,
            !.frontier = << >>]

(* ------------------------------------------------------------------ *)
(* runBFS and runDFS                                                   *)
(* ------------------------------------------------------------------ *)

\* for (const neighbor of neighbors) if (!visited.has(key)) { visited.add(key);
\*   parent.set(key, current); frontier.push(neighbor); }
RECURSIVE VisitNeighbors(_, _, _, _)
VisitNeighbors(s, neighbors, i, current) ==
  IF i > Len(neighbors) THEN s
  ELSE LET neighbor == neighbors[i]
           neighborKey == Key(neighbor)
       IN  IF neighborKey \notin s.visited
           THEN VisitNeighbors(
                  [s EXCEPT !.visited = @ \cup {neighborKey},
                            !.parent = SetAll(@, << neighbor >>, current),
                            !.frontier = Append(@, neighbor)],
                  neighbors, i + 1, current)
           ELSE VisitNeighbors(s, neighbors, i + 1, current)

BFSStart(start) ==
  [NewSearch("bfs", Point(start.x, start.y)) EXCEPT !.visited = {Key(start)}]

\* Mutant: queue.pop() in place of queue.shift().
BFSStepPopLast(s, currentGrid, end) ==
  IF s.frontier = << >> THEN Return(s, << >>, s.exploredCount)
  ELSE LET n == Len(s.frontier)
           current == s.frontier[n]
           popped == [s EXCEPT !.frontier = SubSeq(@, 1, n - 1), !.exploredCount = @ + 1]
       IN  IF current.x = end.x /\ current.y = end.y
           THEN Return(popped, WalkParents(popped.parent, current), popped.exploredCount)
           ELSE VisitNeighbors(popped, getNeighbors(current, currentGrid), 1, current)

\* One turn of runBFS's while loop, up to the await (or the return).
BFSStep(s, currentGrid, end) ==
  IF s.frontier = << >> THEN Return(s, << >>, s.exploredCount)
  ELSE LET current == Head(s.frontier)
           popped == [s EXCEPT !.frontier = Tail(@), !.exploredCount = @ + 1]
       IN  IF current.x = end.x /\ current.y = end.y
           THEN Return(popped, WalkParents(popped.parent, current), popped.exploredCount)
           ELSE VisitNeighbors(popped, getNeighbors(current, currentGrid), 1, current)

DFSStart(start) ==
  [NewSearch("dfs", Point(start.x, start.y)) EXCEPT !.visited = {Key(start)}]

\* One turn of runDFS's while loop: stack.pop() takes the last element.
DFSStep(s, currentGrid, end) ==
  IF s.frontier = << >> THEN Return(s, << >>, s.exploredCount)
  ELSE LET n == Len(s.frontier)
           current == s.frontier[n]
           popped == [s EXCEPT !.frontier = SubSeq(@, 1, n - 1), !.exploredCount = @ + 1]
       IN  IF current.x = end.x /\ current.y = end.y
           THEN Return(popped, WalkParents(popped.parent, current), popped.exploredCount)
           ELSE VisitNeighbors(popped, getNeighbors(current, currentGrid), 1, current)

(* ------------------------------------------------------------------ *)
(* runAStar                                                            *)
(* ------------------------------------------------------------------ *)

AStarStart(start, end) ==
  NewSearch("astar", [x |-> start.x, y |-> start.y, f |-> 0, g |-> 0,
                      h |-> heuristic(start, end)])

\* openSet.find(n => n.x === neighbor.x && n.y === neighbor.y): its index, 0 if none.
FindOpen(openSet, neighbor) ==
  LET hits == {i \in 1 .. Len(openSet) : openSet[i].x = neighbor.x /\ openSet[i].y = neighbor.y}
  IN  IF hits = {} THEN 0 ELSE CHOOSE i \in hits : \A j \in hits : i <= j

RECURSIVE AStarRelax(_, _, _, _, _)
AStarRelax(s, neighbors, i, current, end) ==
  IF i > Len(neighbors) THEN s
  ELSE LET neighbor == neighbors[i]
           neighborKey == Key(neighbor)
           tentativeG == current.g + 1
           existing == FindOpen(s.frontier, neighbor)
           h == heuristic(neighbor, end)
           neighborNode == [x |-> neighbor.x, y |-> neighbor.y, g |-> tentativeG,
                            h |-> h, f |-> tentativeG + h]
       IN  IF neighborKey \in s.visited
           THEN AStarRelax(s, neighbors, i + 1, current, end)
           ELSE IF existing = 0
           THEN AStarRelax(
                  [s EXCEPT !.parent = SetAll(@, << neighbor >>, Point(current.x, current.y)),
                            !.frontier = Append(@, neighborNode)],
                  neighbors, i + 1, current, end)
           ELSE IF tentativeG < s.frontier[existing].g
           THEN AStarRelax(
                  [s EXCEPT !.parent = SetAll(@, << neighbor >>, Point(current.x, current.y)),
                            !.frontier[existing].g = tentativeG,
                            !.frontier[existing].f = tentativeG + h],
                  neighbors, i + 1, current, end)
           ELSE AStarRelax(s, neighbors, i + 1, current, end)

\* One turn of runAStar's while loop: the goal test comes before exploredCount++.
AStarStep(s, currentGrid, end) ==
  IF s.frontier = << >> THEN Return(s, << >>, s.exploredCount)
  ELSE LET sorted == StableSort(s.frontier, [i \in 1 .. Len(s.frontier) |-> s.frontier[i].f])
           current == Head(sorted)
           currentKey == Key(current)
       IN  IF current.x = end.x /\ current.y = end.y
           THEN Return(s, WalkParents(s.parent, current), s.exploredCount)
           ELSE AStarRelax(
                  [s EXCEPT !.frontier = Tail(sorted),
                            !.visited = @ \cup {currentKey},
                            !.exploredCount = @ + 1],
                  getNeighbors(current, currentGrid), 1, current, end)

(* ------------------------------------------------------------------ *)
(* runDijkstra                                                         *)
(* ------------------------------------------------------------------ *)

\* Array(GRID_COLS).fill(Infinity): larger than any distance in the grid.
Infinity == GRID_ROWS * GRID_COLS + 1

Dist(distances, p) == IF Key(p) \in DOMAIN distances THEN distances[Key(p)] ELSE Infinity

DijkstraStart(start) ==
  [NewSearch("dijkstra", [x |-> start.x, y |-> start.y, dist |-> 0])
     EXCEPT !.distances = (Key(start) :> 0)]

\* Mutant: newDist <= distances[neighbor.y][neighbor.x] in place of <.
RECURSIVE DijkstraRelaxOrEqual(_, _, _, _)
DijkstraRelaxOrEqual(s, neighbors, i, current) ==
  IF i > Len(neighbors) THEN s
  ELSE LET neighbor == neighbors[i]
           neighborKey == Key(neighbor)
           newDist == Dist(s.distances, current) + 1
       IN  IF neighborKey \in s.visited
           THEN DijkstraRelaxOrEqual(s, neighbors, i + 1, current)
           ELSE IF newDist <= Dist(s.distances, neighbor)
           THEN DijkstraRelaxOrEqual(
                  [s EXCEPT !.distances = (neighborKey :> newDist) @@ @,
                            !.parent = SetAll(@, << neighbor >>, Point(current.x, current.y)),
                            !.frontier = Append(@, [x |-> neighbor.x, y |-> neighbor.y,
                                                    dist |-> newDist])],
                  neighbors, i + 1, current)
           ELSE DijkstraRelaxOrEqual(s, neighbors, i + 1, current)

RECURSIVE DijkstraRelax(_, _, _, _)
DijkstraRelax(s, neighbors, i, current) ==
  IF i > Len(neighbors) THEN s
  ELSE LET neighbor == neighbors[i]
           neighborKey == Key(neighbor)
           newDist == Dist(s.distances, current) + 1
       IN  IF neighborKey \in s.visited
           THEN DijkstraRelax(s, neighbors, i + 1, current)
           ELSE IF newDist < Dist(s.distances, neighbor)
           THEN DijkstraRelax(
                  [s EXCEPT !.distances = (neighborKey :> newDist) @@ @,
                            !.parent = SetAll(@, << neighbor >>, Point(current.x, current.y)),
                            !.frontier = Append(@, [x |-> neighbor.x, y |-> neighbor.y,
                                                    dist |-> newDist])],
                  neighbors, i + 1, current)
           ELSE DijkstraRelax(s, neighbors, i + 1, current)

\* runDijkstra's while loop up to the await (or the return): a popped cell
\* that is already visited takes `continue`, which does not suspend.
RECURSIVE DijkstraStep(_, _, _)
DijkstraStep(s, currentGrid, end) ==
  IF s.frontier = << >> THEN Return(s, << >>, s.exploredCount)
  ELSE LET sorted == StableSort(s.frontier, [i \in 1 .. Len(s.frontier) |-> s.frontier[i].dist])
           current == Head(sorted)
           currentKey == Key(current)
           popped == [s EXCEPT !.frontier = Tail(sorted)]
           marked == [popped EXCEPT !.visited = @ \cup {currentKey}, !.exploredCount = @ + 1]
       IN  IF currentKey \in s.visited
           THEN DijkstraStep(popped, currentGrid, end)
           ELSE IF current.x = end.x /\ current.y = end.y
           THEN Return(marked, WalkParents(marked.parent, Point(end.x, end.y)),
                       marked.exploredCount)
           ELSE DijkstraRelax(marked, getNeighbors(current, currentGrid), 1, current)

(* ------------------------------------------------------------------ *)
(* A search run from its call to its return                            *)
(* ------------------------------------------------------------------ *)

Algorithms == {"astar", "bfs", "dfs", "dijkstra"}

\* The call of run<Alg>(currentGrid, start, end): the locals are initialised
\* and the first loop turn runs before the first suspension.
SearchStep(s, currentGrid, end) ==
  CASE s.alg = "astar" -> AStarStep(s, currentGrid, end)
    [] s.alg = "bfs" -> BFSStep(s, currentGrid, end)
    [] s.alg = "dfs" -> DFSStep(s, currentGrid, end)
    [] s.alg = "dijkstra" -> DijkstraStep(s, currentGrid, end)

SearchCall(alg, currentGrid, start, end) ==
  LET s0 == CASE alg = "astar" -> AStarStart(start, end)
              [] alg = "bfs" -> BFSStart(start)
              [] alg = "dfs" -> DFSStart(start)
              [] alg = "dijkstra" -> DijkstraStart(start)
  IN  SearchStep(s0, currentGrid, end)

RECURSIVE Resume(_, _, _)
Resume(s, currentGrid, end) ==
  IF s.returned THEN s ELSE Resume(SearchStep(s, currentGrid, end), currentGrid, end)

\* The value the promise resolves to: { path, exploredCount }.
Result(s) == [path |-> s.path, exploredCount |-> s.exploredCount]

runBFS(currentGrid, start, end) == Result(Resume(SearchCall("bfs", currentGrid, start, end), currentGrid, end))
runDFS(currentGrid, start, end) == Result(Resume(SearchCall("dfs", currentGrid, start, end), currentGrid, end))
runAStar(currentGrid, start, end) == Result(Resume(SearchCall("astar", currentGrid, start, end), currentGrid, end))
runDijkstra(currentGrid, start, end) == Result(Resume(SearchCall("dijkstra", currentGrid, start, end), currentGrid, end))

(* ------------------------------------------------------------------ *)
(* generateCars                                                        *)
(* ------------------------------------------------------------------ *)

\* numCars (50 + Math.floor(Math.random() * 26) in the source) scaled down: a
\* mounted or reset component draws CtlCars, a motion-tick run 1 .. TickCars.
CtlCars == 1
TickCars == 2

maxAttempts == 10

DirectionIds == 0 .. 3

\* 0.2 + Math.random() * 0.5 lies in [0.2, 0.7): the multiples of 1 / Scale there.
Speeds == {s \in 1 .. Scale : 2 * Scale <= 10 * s /\ 10 * s < 7 * Scale}

\* The road cells in the order of the two nested loops (y outer, x inner).
RECURSIVE RoadCellsFrom(_, _)
RoadCellsFrom(g, i) ==
  IF i >= GRID_ROWS * GRID_COLS THEN << >>
  ELSE LET py == i \div GRID_COLS
           px == i % GRID_COLS
       IN  (IF g[py][px].isRoad THEN << Point(px, py) >> ELSE << >>) \o RoadCellsFrom(g, i + 1)

RoadCellsOf(g) == RoadCellsFrom(g, 0)

\* Mutant: one draw, without the test of occupiedCells.
DrawLoopOnce(roadCells, occupiedCells, draws, attempts) ==
  [randomRoad |-> roadCells[draws[1]], attempts |-> 1]

\* do { randomRoad = roadCells[draw]; attempts++; }
\* while (occupiedCells.has(key(randomRoad)) && attempts < maxAttempts);
\* draws[k] is the k-th value of Math.floor(Math.random() * roadCells.length) + 1.
RECURSIVE DrawLoop(_, _, _, _)
DrawLoop(roadCells, occupiedCells, draws, attempts) ==
  LET randomRoad == roadCells[draws[attempts + 1]]
  IN  IF Key(randomRoad) \in occupiedCells /\ attempts + 1 < maxAttempts
      THEN DrawLoop(roadCells, occupiedCells, draws, attempts + 1)
      ELSE [randomRoad |-> randomRoad, attempts |-> attempts + 1]

\* The body of the for loop over the car slots i = from .. numCars - 1.
\* rnd.slots[i + 1] holds the random draws of slot i.
RECURSIVE SpawnFrom(_, _, _, _, _)
SpawnFrom(roadCells, rnd, i, newCars, occupiedCells) ==
  IF i >= rnd.numCars THEN newCars
  ELSE LET slot == rnd.slots[i + 1]
           drawn == DrawLoop(roadCells, occupiedCells, slot.draws, 0)
           randomRoad == drawn.randomRoad
       IN  IF drawn.attempts >= maxAttempts
           THEN SpawnFrom(roadCells, rnd, i + 1, newCars, occupiedCells)
           ELSE SpawnFrom(roadCells, rnd, i + 1,
                  Append(newCars, [id |-> i, x |-> randomRoad.x * Scale,
                                   y |-> randomRoad.y * Scale,
                                   direction |-> slot.direction, speed |-> slot.speed,
                                   stuckTime |-> 0]),
                  occupiedCells \cup {Key(randomRoad)})

generateCars(g, rnd) == SpawnFrom(RoadCellsOf(g), rnd, 0, << >>, {})

\* The random draws generateCars may make on grid g. A slot's draws are
\* maxAttempts road-cell indices; the loop reads a prefix of them, so the
\* sequences "first, ..., first, last" stand for all of them.
SlotDraws(nRoad) ==
  {[k \in 1 .. maxAttempts |-> IF k < maxAttempts THEN first ELSE last] :
     first \in 1 .. nRoad, last \in 1 .. nRoad}

SpawnDraws(g, counts) ==
  LET nRoad == Len(RoadCellsOf(g))
      Slot == [draws : SlotDraws(nRoad), direction : DirectionIds, speed : Speeds]
  IN  UNION {[numCars : {n}, slots : [1 .. n -> Slot]] : n \in counts}

(* ------------------------------------------------------------------ *)
(* moveCars                                                            *)
(* ------------------------------------------------------------------ *)

StuckLimit == 20

\* directions[car.direction]: right, down, left, up.
carDirections == << [dx |-> 1, dy |-> 0], [dx |-> 0, dy |-> 1],
                    [dx |-> -1, dy |-> 0], [dx |-> 0, dy |-> -1] >>

\* Math.floor of a position.
Floor(p) == p \div Scale

\* Math.abs(a - b) < 0.8
Within08(a, b) == 10 * Abs(a - b) < 8 * Scale

NewX(car) == car.x + carDirections[car.direction + 1].dx * car.speed
NewY(car) == car.y + carDirections[car.direction + 1].dy * car.speed

\* Mutant: the isWall test is missing from the boundary check.
OffGrid(g, nextCellX, nextCellY) ==
  \/ nextCellX < 0
  \/ nextCellX >= GRID_COLS
  \/ nextCellY < 0
  \/ nextCellY >= GRID_ROWS

\* The condition of the "Check boundaries and walls" if.
OffGridOrWall(g, nextCellX, nextCellY) ==
  \/ nextCellX < 0
  \/ nextCellX >= GRID_COLS
  \/ nextCellY < 0
  \/ nextCellY >= GRID_ROWS
  \/ (/\ nextCellY \in DOMAIN g
      /\ nextCellX \in DOMAIN g[nextCellY]
      /\ g[nextCellY][nextCellX].isWall)

\* prevCars.some(otherCar => otherCar.id !== car.id && ...)
Collision(car, prevCars) ==
  \E k \in 1 .. Len(prevCars) :
    /\ prevCars[k].id # car.id
    /\ Within08(prevCars[k].x, NewX(car))
    /\ Within08(prevCars[k].y, NewY(car))

\* Mutant: car.stuckTime >= 20 in place of car.stuckTime > 20.
MoveBranchAtLimit(car, prevCars, g, rnd) ==
  IF OffGridOrWall(g, Floor(NewX(car)), Floor(NewY(car))) THEN "turnedAtWall"
  ELSE IF Collision(car, prevCars)
       THEN (IF car.stuckTime >= StuckLimit THEN "unstuck" ELSE "held")
  ELSE IF rnd.spontaneous THEN "movedAndTurned"
  ELSE "moved"

\* Which return statement of the map callback a car takes.
MoveBranch(car, prevCars, g, rnd) ==
  IF OffGridOrWall(g, Floor(NewX(car)), Floor(NewY(car))) THEN "turnedAtWall"
  ELSE IF Collision(car, prevCars)
       THEN (IF car.stuckTime > StuckLimit THEN "unstuck" ELSE "held")
  ELSE IF rnd.spontaneous THEN "movedAndTurned"
  ELSE "moved"

\* The map callback of moveCars for one car. rnd holds its random draws:
\* wallDir and newDir are Math.floor(Math.random() * 4), stuckTurn is
\* Math.floor(Math.random() * 2), spontaneous is Math.random() < 0.001.
MoveCar(car, prevCars, g, rnd) ==
  LET branch == MoveBranch(car, prevCars, g, rnd)
  IN  CASE branch = "turnedAtWall" ->
             [car EXCEPT !.direction = rnd.wallDir, !.stuckTime = 0]
        [] branch = "unstuck" ->
             [car EXCEPT !.direction = (car.direction + 1 + rnd.stuckTurn) % 4,
                         !.stuckTime = 0]
        [] branch = "held" ->
             [car EXCEPT !.stuckTime = car.stuckTime + 1]
        [] branch = "movedAndTurned" ->
             [car EXCEPT !.direction = rnd.newDir, !.x = NewX(car), !.y = NewY(car),
                         !.stuckTime = 0]
        [] branch = "moved" ->
             [car EXCEPT !.x = NewX(car), !.y = NewY(car), !.stuckTime = 0]

\* The outcomes of the Math.random() calls the callback makes for this car;
\* the draws of the branches it does not take are left at 0 / FALSE.
MoveDraws(car, prevCars, g) ==
  LET none == [wallDir |-> 0, stuckTurn |-> 0, spontaneous |-> FALSE, newDir |-> 0]
      branch == MoveBranch(car, prevCars, g, none)
  IN  CASE branch = "turnedAtWall" -> {[none EXCEPT !.wallDir = d] : d \in DirectionIds}
        [] branch = "unstuck" -> {[none EXCEPT !.stuckTurn = d] : d \in 0 .. 1}
        [] branch = "held" -> {none}
        [] OTHER -> {none} \cup {[none EXCEPT !.spontaneous = TRUE, !.newDir = d] : d \in DirectionIds}

RECURSIVE MoveInPlaceFrom(_, _, _, _)
MoveInPlaceFrom(cs, g, rnds, k) ==
  IF k > Len(cs) THEN cs
  ELSE MoveInPlaceFrom([cs EXCEPT ![k] = MoveCar(cs[k], cs, g, rnds[k])], g, rnds, k + 1)

\* Mutant: the cars are updated in place, in array order, so that a car's
\* collision test reads the new positions of the cars before it.
moveCarsInPlace(prevCars, g, rnds) == MoveInPlaceFrom(prevCars, g, rnds, 1)

\* setCars(prevCars => prevCars.map(car => ...))
moveCars(prevCars, g, rnds) ==
  [k \in 1 .. Len(prevCars) |-> MoveCar(prevCars[k], prevCars, g, rnds[k])]

(* ------------------------------------------------------------------ *)
(* State                                                               *)
(* ------------------------------------------------------------------ *)

VARIABLES
  algorithm,            \* useState("astar")
  isSimulationRunning,  \* useState(false)
  startPoint,           \* useState(null)
  endPoint,             \* useState(null)
  grid,                 \* useState([]): the city grid
  cars,                 \* useState([]): the cars, in array order
  isPathfinding,        \* useState(false)
  currentPath,          \* useState([])
  stats,                \* useState({nodesExplored, pathLength, executionTime, recalculations})
  calls,                \* the runPathfinding calls suspended at an await
  events,               \* the number of user events handled so far
  timers,               \* the ages of the pending interval and animation frame
  lastEvent,            \* history: what the step just taken did, if it was a canvas click or a reset
  completed,            \* history: the searches that returned since the last reset
  probe,                \* arguments of a direct call of a function of the component
  answers               \* what the function (the four searches, for a search) returned for probe

vars == <<algorithm, isSimulationRunning, startPoint, endPoint, grid, cars,
          isPathfinding, currentPath, stats, calls, events, timers, lastEvent, completed, probe, answers>>

carVars == <<grid, cars>>
uiVars == <<algorithm, isSimulationRunning, startPoint, endPoint, isPathfinding,
            currentPath, stats, calls, events, completed>>
searchVars == <<probe, answers>>

Pending == [path |-> << >>, exploredCount |-> -1]

NoProbe == [currentGrid |-> << >>, start |-> null, end |-> null]

\* interval: time since the effect called setInterval; frame: time since
\* requestAnimationFrame was called; idle: time for which a periodic search
\* has been due to start (the effect's gate true, no search in flight).
ZeroTimers == [interval |-> 0, frame |-> 0, idle |-> 0]

\* History: how many searches returned to runPathfinding since the last reset,
\* and what the last of them returned.
NoneCompleted == [count |-> 0, path |-> << >>, exploredCount |-> 0]

Returned(c) ==
  [count |-> completed.count + 1, path |-> c.search.path,
   exploredCount |-> c.search.exploredCount]

ZeroStats == [nodesExplored |-> 0, pathLength |-> 0, executionTime |-> 0, recalculations |-> 0]

\* The useState initial values of everything but grid and cars.
FreshUi ==
  /\ algorithm = "astar"
  /\ isSimulationRunning = FALSE
  /\ startPoint = null
  /\ endPoint = null
  /\ isPathfinding = FALSE
  /\ currentPath = << >>
  /\ stats = ZeroStats
  /\ calls = << >>
  /\ events = 0
  /\ timers = ZeroTimers
  /\ lastEvent = "none"
  /\ completed = NoneCompleted

\* The mount effect: setGrid(initializeCityGrid()); setCars(generateCars(grid)).
Mounted(counts) ==
  /\ grid = initializeCityGrid
  /\ \E rnd \in SpawnDraws(initializeCityGrid, counts) :
       cars = generateCars(initializeCityGrid, rnd)

(* ------------------------------------------------------------------ *)
(* SpecGrid: initializeCityGrid at the size of the source              *)
(* ------------------------------------------------------------------ *)

\* const GRID_ROWS = 60; const GRID_COLS = 120;
CityRows == 60
CityCols == 120

\* The grid is built for the sizes from CityRows - SizeSpread + 1 to CityRows
\* rows and from CityCols - 2 * SizeSpread + 1 to CityCols columns.
SizeSpread == 6

GridInit ==
  /\ probe \in [rows : (CityRows - SizeSpread + 1) .. CityRows,
                cols : (CityCols - 2 * SizeSpread + 1) .. CityCols]
  /\ answers = [a \in Algorithms |-> Pending]
  /\ grid = << >>
  /\ cars = << >>
  /\ FreshUi

\* setGrid(initializeCityGrid())
MakeGrid ==
  /\ grid = << >>
  /\ grid' = CityGridOf(probe.rows, probe.cols)
  /\ UNCHANGED <<cars, uiVars, searchVars, timers, lastEvent>>

GridNext == MakeGrid

SpecGrid == GridInit /\ [][GridNext]_vars

(* ------------------------------------------------------------------ *)
(* SpecSpawn: generateCars on the city grid                            *)
(* ------------------------------------------------------------------ *)

\* numCars = 50 + Math.floor(Math.random() * 26) lies in 50 .. 75; scaled down
\* to SpawnMin .. SpawnMax, with SpawnMax the number of road cells so that a
\* spawn can fill the road.
SpawnMin == 2
SpawnMax == 3

SpawnInit ==
  /\ grid = initializeCityGrid
  /\ probe \in SpawnDraws(initializeCityGrid, SpawnMin .. SpawnMax)
  /\ answers = [a \in Algorithms |-> Pending]
  /\ cars = << >>
  /\ FreshUi

\* setCars(generateCars(initialGrid))
Spawn ==
  /\ cars = << >>
  /\ cars' = generateCars(grid, probe)
  /\ UNCHANGED <<grid, uiVars, searchVars, timers, lastEvent>>

SpawnNext == Spawn

SpecSpawn == SpawnInit /\ [][SpawnNext]_vars

(* ------------------------------------------------------------------ *)
(* Timers                                                              *)
(* ------------------------------------------------------------------ *)

\* Searches are started only while fewer than MaxRecalc have completed since
\* the last reset (stats.recalculations is unbounded in the program).
MaxRecalc == 2

\* setInterval(..., 1000)
IntervalDelay == 1000

\* The time between two animation frames that arrive on time.
FramePeriod == 400

\* The gate of the continuous-pathfinding effect.
Gate == isSimulationRunning /\ startPoint # null /\ endPoint # null

\* The values the effect's dependency list [isSimulationRunning, startPoint,
\* endPoint, isPathfinding, runPathfinding] is built from; runPathfinding is
\* a new function whenever startPoint, endPoint, isPathfinding, grid, cars
\* or algorithm is a new value.
EffectDeps == <<isSimulationRunning, startPoint, endPoint, isPathfinding, grid, cars, algorithm>>

\* The timers after a step that re-rendered the component. newArrays: the
\* step stored a new cars or grid array (prevCars.map, generateCars);
\* fired: the step was the interval's callback; userEvent: it was a click.
\* A changed dependency makes the effect clear the interval and set a new one.
TimersAfter(newArrays, fired, userEvent) ==
  LET gate == isSimulationRunning' /\ startPoint' # null /\ endPoint' # null
      deps == <<isSimulationRunning', startPoint', endPoint', isPathfinding', grid', cars',
                algorithm'>>
      due == gate /\ calls' = << >> /\ stats'.recalculations < MaxRecalc
  IN  timers' =
        [interval |-> IF ~gate \/ newArrays \/ fired \/ deps # EffectDeps
                      THEN 0 ELSE timers.interval,
         frame |-> IF ~isSimulationRunning' \/ ~isSimulationRunning \/ newArrays
                   THEN 0 ELSE timers.frame,
         idle |-> IF due /\ Gate /\ calls = << >> /\ ~userEvent /\ stats' = stats
                  THEN timers.idle ELSE 0]

(* ------------------------------------------------------------------ *)
(* SpecCars: the motion tick on the spawned cars                       *)
(* ------------------------------------------------------------------ *)

\* A mounted component after "Start Traffic".
CarsInit ==
  /\ Mounted(1 .. TickCars)
  /\ algorithm = "astar"
  /\ isSimulationRunning = TRUE
  /\ startPoint = null
  /\ endPoint = null
  /\ isPathfinding = FALSE
  /\ currentPath = << >>
  /\ stats = ZeroStats
  /\ calls = << >>
  /\ events = 0
  /\ timers = ZeroTimers
  /\ lastEvent = "none"
  /\ completed = NoneCompleted
  /\ probe = NoProbe
  /\ answers = [a \in Algorithms |-> Pending]

\* The draws of one tick: one record of draws for each car.
RECURSIVE TickDrawsFrom(_, _, _)
TickDrawsFrom(prevCars, g, k) ==
  IF k > Len(prevCars) THEN {<< >>}
  ELSE {<< d >> \o rest : d \in MoveDraws(prevCars[k], prevCars, g),
                          rest \in TickDrawsFrom(prevCars, g, k + 1)}

TickDraws(prevCars, g) == TickDrawsFrom(prevCars, g, 1)

\* The animation loop: while isSimulationRunning, each frame calls moveCars().
AnimationFrame ==
  /\ isSimulationRunning
  /\ \E rnds \in TickDraws(cars, grid) : cars' = moveCars(cars, grid, rnds)
  /\ UNCHANGED <<grid, uiVars, searchVars>>
  /\ TimersAfter(TRUE, FALSE, FALSE)
  /\ lastEvent' = "none"

CarsNext == AnimationFrame

SpecCars == CarsInit /\ [][CarsNext]_vars

(* ------------------------------------------------------------------ *)
(* SpecSearch: the four searches as functions of (currentGrid, start,  *)
(* end)                                                                *)
(* ------------------------------------------------------------------ *)

\* The cells of a GRID_COLS-wide strip that may be open, row by row from the
\* top row, or from the bottom row when mirrored.
StripPoints(mirrored) ==
  {Point(i % GRID_COLS, IF mirrored THEN GRID_ROWS - 1 - (i \div GRID_COLS) ELSE i \div GRID_COLS) :
     i \in 0 .. (SnapCells - 1)} \cap AllPoints

\* A snapshot as runPathfinding builds it: the cells of open are road, the
\* others wall, and hasCar is set on the cells of carCells.
SnapshotOf(open, carCells) ==
  [py \in Rows |-> [px \in Cols |->
     IF Point(px, py) \in open
     THEN [RoadCell EXCEPT !.hasCar = Point(px, py) \in carCells]
     ELSE WallCell]]

\* start and end are cells a click accepted: not walls. A car may have
\* driven onto either since.
SearchInit ==
  /\ \E mirrored \in BOOLEAN :
     \E open \in SUBSET StripPoints(mirrored) :
     \E carCells \in {{}} \cup {{c} : c \in open} :
     \E start \in open, end \in open :
       probe = [currentGrid |-> SnapshotOf(open, carCells), start |-> start, end |-> end]
  /\ answers = [a \in Algorithms |-> Pending]
  /\ grid = << >>
  /\ cars = << >>
  /\ FreshUi

RunSearches ==
  /\ answers["bfs"] = Pending
  /\ answers' = [a \in Algorithms |->
       CASE a = "astar" -> runAStar(probe.currentGrid, probe.start, probe.end)
         [] a = "bfs" -> runBFS(probe.currentGrid, probe.start, probe.end)
         [] a = "dfs" -> runDFS(probe.currentGrid, probe.start, probe.end)
         [] a = "dijkstra" -> runDijkstra(probe.currentGrid, probe.start, probe.end)]
  /\ UNCHANGED <<probe, carVars, uiVars, timers, lastEvent>>

SearchNext == RunSearches

SpecSearch == SearchInit /\ [][SearchNext]_vars

(* ------------------------------------------------------------------ *)
(* runPathfinding                                                      *)
(* ------------------------------------------------------------------ *)

\* currentGrid: the grid with hasCar recomputed from the cars.
Overlay(g, cs) ==
  [py \in DOMAIN g |-> [px \in DOMAIN g[py] |->
     [g[py][px] EXCEPT !.hasCar =
        \E k \in 1 .. Len(cs) : Floor(cs[k].x) = px /\ Floor(cs[k].y) = py]]]

\* History: the cells whose hasCar flag is set in a snapshot.
HasCarCells(g) == {p \in AllPoints : g[p.y][p.x].hasCar}

\* History: the cells that hold a car.
CarCells(cs) == {Point(Floor(cs[k].x), Floor(cs[k].y)) : k \in 1 .. Len(cs)}

\* A call of runPathfinding up to its await: the locals currentGrid, the
\* search it awaits and the closure values startPoint and endPoint. awaits
\* counts the suspensions and stands for Date.now() - startTime. The fields
\* stale, skipped, carCellsAtStart and reads are history: whether the
\* algorithm was switched or reset pressed since the call, whether an
\* interval trigger arrived since, the cells that held a car at the call and
\* the obstacle maps the search has read.
NewCall(alg, g, cs, sp, ep) ==
  LET currentGrid == Overlay(g, cs)
  IN  [search |-> SearchCall(alg, currentGrid, sp, ep), currentGrid |-> currentGrid,
       start |-> sp, end |-> ep, awaits |-> 0,
       stale |-> FALSE, skipped |-> FALSE, carCellsAtStart |-> CarCells(cs),
       reads |-> {HasCarCells(currentGrid)}]

\* Mutant: the search reads the grid overlaid with the cars as they are now.
LiveGrid(c, g, cs) == Overlay(g, cs)

\* The currentGrid argument the suspended search was called with.
GridArgument(c, g, cs) == c.currentGrid

\* The search of call c resumed after its timer: one more loop turn.
ResumeCall(c, g, cs) ==
  LET read == GridArgument(c, g, cs)
  IN  [c EXCEPT !.search = SearchStep(@, read, c.end),
                !.awaits = @ + 1,
                !.reads = @ \cup {HasCarCells(read)}]

\* Mutant: setStats({...stats, ...}) with the stats of the render that made the
\* call, not of the state the completion finds.
StatsAfterFromZero(prev, c) ==
  [ZeroStats EXCEPT !.nodesExplored = c.search.exploredCount,
                    !.pathLength = Len(c.search.path),
                    !.executionTime = c.awaits,
                    !.recalculations = @ + 1]

\* setStats(prev => ({...prev, nodesExplored, pathLength, executionTime,
\*                    recalculations: prev.recalculations + 1}))
StatsAfter(prev, c) ==
  [prev EXCEPT !.nodesExplored = c.search.exploredCount,
               !.pathLength = Len(c.search.path),
               !.executionTime = c.awaits,
               !.recalculations = @ + 1]

\* Mutant: setIsPathfinding(true) is missing.
runPathfindingNoFlag ==
  IF startPoint = null \/ endPoint = null \/ isPathfinding
  THEN UNCHANGED <<isPathfinding, currentPath, stats, calls, completed>>
  ELSE LET c == NewCall(algorithm, grid, cars, startPoint, endPoint)
       IN  IF c.search.returned
           THEN /\ isPathfinding' = FALSE
                /\ currentPath' = c.search.path
                /\ stats' = StatsAfter(stats, c)
                /\ calls' = calls
                /\ completed' = Returned(c)
           ELSE /\ isPathfinding' = isPathfinding
                /\ currentPath' = << >>
                /\ stats' = stats
                /\ calls' = Append(calls, c)
                /\ completed' = completed

\* runPathfinding() up to the await of the search. A search that returns in
\* its first loop turn resolves at once and the rest of runPathfinding runs
\* before any other event.
runPathfinding ==
  IF startPoint = null \/ endPoint = null \/ isPathfinding
  THEN UNCHANGED <<isPathfinding, currentPath, stats, calls, completed>>
  ELSE LET c == NewCall(algorithm, grid, cars, startPoint, endPoint)
       IN  IF c.search.returned
           THEN /\ isPathfinding' = FALSE
                /\ currentPath' = c.search.path
                /\ stats' = StatsAfter(stats, c)
                /\ calls' = calls
                /\ completed' = Returned(c)
           ELSE /\ isPathfinding' = TRUE
                /\ currentPath' = << >>
                /\ stats' = stats
                /\ calls' = Append(calls, c)
                /\ completed' = completed

RemoveAt(s, i) == SubSeq(s, 1, i - 1) \o SubSeq(s, i + 1, Len(s))

\* A suspended search resumes; when it returns, runPathfinding goes on:
\* setCurrentPath(result.path); setStats(...); setIsPathfinding(false).
ResumeSearch ==
  /\ \E i \in 1 .. Len(calls) :
       LET c == ResumeCall(calls[i], grid, cars)
       IN  IF c.search.returned
           THEN /\ currentPath' = c.search.path
                /\ stats' = StatsAfter(stats, c)
                /\ isPathfinding' = FALSE
                /\ calls' = RemoveAt(calls, i)
                /\ completed' = Returned(c)
           ELSE /\ calls' = [calls EXCEPT ![i] = c]
                /\ UNCHANGED <<isPathfinding, currentPath, stats, completed>>
  /\ UNCHANGED <<algorithm, isSimulationRunning, startPoint, endPoint, events, carVars,
                 searchVars>>
  /\ TimersAfter(FALSE, FALSE, FALSE)
  /\ lastEvent' = "none"

(* ------------------------------------------------------------------ *)
(* SpecSteps: a search resumed turn by turn                            *)
(* ------------------------------------------------------------------ *)

\* The cells of a wall layout that may be open: the first StepCells cells of
\* the top rows.
StepCells == 6

StepPoints == {Point(i % GRID_COLS, i \div GRID_COLS) : i \in 0 .. (StepCells - 1)} \cap AllPoints

\* A car standing on the corner of cell p.
CarOn(p) ==
  [id |-> 0, x |-> p.x * Scale, y |-> p.y * Scale, direction |-> 0,
   speed |-> CHOOSE s \in Speeds : TRUE, stuckTime |-> 0]

\* Nothing has been called yet.
StepsInit ==
  /\ grid = << >>
  /\ cars = << >>
  /\ FreshUi
  /\ probe = NoProbe
  /\ answers = [a \in Algorithms |-> Pending]

\* runPathfinding is called, with any algorithm, on any wall layout of the
\* cells of StepPoints, with no car or one car, and start and end on open
\* cells.
CallSearch ==
  /\ grid = << >>
  /\ \E open \in SUBSET StepPoints, alg \in Algorithms :
     \E carCells \in {{}} \cup {{p} : p \in open} :
     \E start \in open, end \in open :
       LET g == SnapshotOf(open, {})
           cs == IF carCells = {} THEN << >> ELSE << CarOn(CHOOSE p \in carCells : TRUE) >>
           c == NewCall(alg, g, cs, start, end)
       IN  /\ grid' = g
           /\ cars' = cs
           /\ algorithm' = alg
           /\ startPoint' = start
           /\ endPoint' = end
           /\ IF c.search.returned
              THEN /\ isPathfinding' = FALSE
                   /\ currentPath' = c.search.path
                   /\ stats' = StatsAfter(stats, c)
                   /\ calls' = calls
                   /\ completed' = Returned(c)
              ELSE /\ isPathfinding' = TRUE
                   /\ currentPath' = << >>
                   /\ stats' = stats
                   /\ calls' = << c >>
                   /\ completed' = completed
  /\ UNCHANGED <<isSimulationRunning, events, timers, lastEvent, searchVars>>

StepsNext == CallSearch \/ ResumeSearch

SpecSteps == StepsInit /\ [][StepsNext]_vars

\* What a step of ResumeSearch does to calls: a suspended call has returned
\* and is gone, or it has taken one more loop turn and suspended again.
Resumed ==
  \E i \in 1 .. Len(calls) :
    \/ calls' = RemoveAt(calls, i)
    \/ /\ Len(calls') = Len(calls)
       /\ calls'[i] # calls[i]

\* setTimeout(resolve, 5) or (resolve, 10): the timer of a suspended search
\* runs out and the event loop resumes the search. The steps of SpecSteps
\* that satisfy Resumed are the steps of ResumeSearch, and both are enabled
\* exactly when a call is suspended.
SpecStepsFair == SpecSteps /\ WF_calls(Resumed)

(* ------------------------------------------------------------------ *)
(* The controls                                                        *)
(* ------------------------------------------------------------------ *)

CanStart == stats.recalculations < MaxRecalc

\* A run handles at most MaxEvents user events (clicks on the canvas, on the
\* buttons and on the algorithm select); frames, interval ticks and search
\* timers are not counted.
MaxEvents == 4

UserEvent == events < MaxEvents /\ events' = events + 1

\* The Find Path button: disabled = !startPoint || !endPoint || isPathfinding.
FindPathClick ==
  /\ ~(startPoint = null \/ endPoint = null \/ isPathfinding)
  /\ CanStart
  /\ UserEvent
  /\ runPathfinding
  /\ UNCHANGED <<algorithm, isSimulationRunning, startPoint, endPoint, carVars, searchVars>>
  /\ TimersAfter(FALSE, FALSE, TRUE)
  /\ lastEvent' = "none"

\* The effect's interval exists while isSimulationRunning && startPoint &&
\* endPoint; its callback: if (!isPathfinding) runPathfinding().
IntervalFire ==
  /\ isSimulationRunning /\ startPoint # null /\ endPoint # null
  /\ IF ~isPathfinding
     THEN CanStart /\ runPathfinding
     ELSE /\ calls' = [i \in 1 .. Len(calls) |-> [calls[i] EXCEPT !.skipped = TRUE]]
          /\ UNCHANGED <<isPathfinding, currentPath, stats, completed>>
  /\ UNCHANGED <<algorithm, isSimulationRunning, startPoint, endPoint, events, carVars,
                 searchVars>>
  /\ TimersAfter(FALSE, TRUE, FALSE)
  /\ lastEvent' = "none"

\* <Select onValueChange={setAlgorithm}>
SetAlgorithm ==
  /\ UserEvent
  /\ \E a \in Algorithms \ {algorithm} : algorithm' = a
  /\ calls' = [i \in 1 .. Len(calls) |-> [calls[i] EXCEPT !.stale = TRUE]]
  /\ UNCHANGED <<isSimulationRunning, startPoint, endPoint, isPathfinding, currentPath,
                 stats, completed, carVars, searchVars>>
  /\ TimersAfter(FALSE, FALSE, TRUE)
  /\ lastEvent' = "none"

\* The Start Traffic / Pause Traffic button.
ToggleSimulation ==
  /\ UserEvent
  /\ isSimulationRunning' = ~isSimulationRunning
  /\ UNCHANGED <<algorithm, startPoint, endPoint, isPathfinding, currentPath, stats, calls,
                 completed, carVars, searchVars>>
  /\ TimersAfter(FALSE, FALSE, TRUE)
  /\ lastEvent' = "none"

\* Some car's floored position is the cell (x, y).
CarAt(cs, x, y) == \E k \in 1 .. Len(cs) : Floor(cs[k].x) = x /\ Floor(cs[k].y) = y

\* History: which path through handleCanvasClick a click on the cell (x, y)
\* takes in the current state.
ClickKind(x, y) ==
  IF x < 0 \/ x >= GRID_COLS \/ y < 0 \/ y >= GRID_ROWS THEN "outside"
  ELSE IF grid[y][x].isWall THEN "wall"
  ELSE IF CarAt(cars, x, y) THEN "car"
  ELSE IF startPoint = null THEN "setStart"
  ELSE IF endPoint = null THEN "setEnd"
  ELSE "restart"

\* Mutant: the test for a car on the clicked cell is missing.
handleCanvasClickNoCarTest(x, y) ==
  /\ UserEvent
  /\ IF x < 0 \/ x >= GRID_COLS \/ y < 0 \/ y >= GRID_ROWS
     THEN UNCHANGED <<startPoint, endPoint, currentPath>>
     ELSE IF /\ y \in DOMAIN grid
             /\ x \in DOMAIN grid[y]
             /\ ~grid[y][x].isWall
     THEN IF startPoint = null
          THEN startPoint' = Point(x, y) /\ UNCHANGED <<endPoint, currentPath>>
          ELSE IF endPoint = null
          THEN endPoint' = Point(x, y) /\ UNCHANGED <<startPoint, currentPath>>
          ELSE startPoint' = Point(x, y) /\ endPoint' = null /\ currentPath' = << >>
     ELSE UNCHANGED <<startPoint, endPoint, currentPath>>
  /\ UNCHANGED <<algorithm, isSimulationRunning, isPathfinding, stats, calls, completed,
                 carVars, searchVars>>
  /\ TimersAfter(FALSE, FALSE, TRUE)
  /\ lastEvent' = ClickKind(x, y)

\* Mutant: a click with both points set moves the start and keeps the end
\* and the path.
handleCanvasClickKeepsEnd(x, y) ==
  /\ UserEvent
  /\ IF x < 0 \/ x >= GRID_COLS \/ y < 0 \/ y >= GRID_ROWS
     THEN UNCHANGED <<startPoint, endPoint, currentPath>>
     ELSE IF /\ y \in DOMAIN grid
             /\ x \in DOMAIN grid[y]
             /\ ~grid[y][x].isWall
             /\ ~\E k \in 1 .. Len(cars) : Floor(cars[k].x) = x /\ Floor(cars[k].y) = y
     THEN IF startPoint = null
          THEN startPoint' = Point(x, y) /\ UNCHANGED <<endPoint, currentPath>>
          ELSE IF endPoint = null
          THEN endPoint' = Point(x, y) /\ UNCHANGED <<startPoint, currentPath>>
          ELSE startPoint' = Point(x, y) /\ UNCHANGED <<endPoint, currentPath>>
     ELSE UNCHANGED <<startPoint, endPoint, currentPath>>
  /\ UNCHANGED <<algorithm, isSimulationRunning, isPathfinding, stats, calls, completed,
                 carVars, searchVars>>
  /\ TimersAfter(FALSE, FALSE, TRUE)
  /\ lastEvent' = ClickKind(x, y)

\* handleCanvasClick with the cell (x, y) = floor(pixel / CELL_SIZE).
handleCanvasClick(x, y) ==
  /\ UserEvent
  /\ IF x < 0 \/ x >= GRID_COLS \/ y < 0 \/ y >= GRID_ROWS
     THEN UNCHANGED <<startPoint, endPoint, currentPath>>
     ELSE IF /\ y \in DOMAIN grid
             /\ x \in DOMAIN grid[y]
             /\ ~grid[y][x].isWall
             /\ ~\E k \in 1 .. Len(cars) : Floor(cars[k].x) = x /\ Floor(cars[k].y) = y
     THEN IF startPoint = null
          THEN startPoint' = Point(x, y) /\ UNCHANGED <<endPoint, currentPath>>
          ELSE IF endPoint = null
          THEN endPoint' = Point(x, y) /\ UNCHANGED <<startPoint, currentPath>>
          ELSE startPoint' = Point(x, y) /\ endPoint' = null /\ currentPath' = << >>
     ELSE UNCHANGED <<startPoint, endPoint, currentPath>>
  /\ UNCHANGED <<algorithm, isSimulationRunning, isPathfinding, stats, calls, completed,
                 carVars, searchVars>>
  /\ TimersAfter(FALSE, FALSE, TRUE)
  /\ lastEvent' = ClickKind(x, y)

\* The cells a click may land on: every cell of the grid and one cell beyond
\* each edge.
ClickCells ==
  AllPoints \cup {Point(-1, 0), Point(GRID_COLS, 0), Point(0, -1), Point(0, GRID_ROWS)}

CanvasClick == \E p \in ClickCells : handleCanvasClick(p.x, p.y)

\* Mutant: setCurrentPath([]) is missing.
resetSimulationKeepsPath ==
  /\ UserEvent
  /\ lastEvent' = "reset"
  /\ UNCHANGED <<algorithm, isPathfinding, searchVars>>
  /\ isSimulationRunning' = FALSE
  /\ startPoint' = null
  /\ endPoint' = null
  /\ currentPath' = currentPath
  /\ stats' = ZeroStats
  /\ completed' = NoneCompleted
  /\ calls' = [i \in 1 .. Len(calls) |-> [calls[i] EXCEPT !.stale = TRUE]]
  /\ grid' = initializeCityGrid
  /\ \E rnd \in SpawnDraws(initializeCityGrid, {CtlCars}) :
       cars' = generateCars(initializeCityGrid, rnd)
  /\ TimersAfter(TRUE, FALSE, TRUE)

\* The Reset button.
resetSimulation ==
  /\ UserEvent
  /\ lastEvent' = "reset"
  /\ UNCHANGED <<algorithm, isPathfinding, searchVars>>
  /\ isSimulationRunning' = FALSE
  /\ startPoint' = null
  /\ endPoint' = null
  /\ currentPath' = << >>
  /\ stats' = ZeroStats
  /\ completed' = NoneCompleted
  /\ calls' = [i \in 1 .. Len(calls) |-> [calls[i] EXCEPT !.stale = TRUE]]
  /\ grid' = initializeCityGrid
  /\ \E rnd \in SpawnDraws(initializeCityGrid, {CtlCars}) :
       cars' = generateCars(initializeCityGrid, rnd)
  /\ TimersAfter(TRUE, FALSE, TRUE)

(* ------------------------------------------------------------------ *)
(* Spec: the mounted component                                         *)
(* ------------------------------------------------------------------ *)

Init ==
  /\ Mounted({CtlCars})
  /\ FreshUi
  /\ probe = NoProbe
  /\ answers = [a \in Algorithms |-> Pending]

Next ==
  \/ AnimationFrame
  \/ ToggleSimulation
  \/ SetAlgorithm
  \/ CanvasClick
  \/ FindPathClick
  \/ IntervalFire
  \/ ResumeSearch
  \/ resetSimulation

Spec == Init /\ [][Next]_vars

(* ------------------------------------------------------------------ *)
(* SpecTimed: the mounted component with the interval and the frames   *)
(* on a clock                                                          *)
(* ------------------------------------------------------------------ *)

\* A timed run handles at most TimedEvents user events.
TimedEvents == 3

Min(a, b) == IF a < b THEN a ELSE b

\* Time passes up to the next deadline: the next animation frame or the
\* interval's next callback. The interval's callback is never late; a frame
\* may be. The timers of a suspended search are not on the clock: it may
\* resume at any time.
TimePasses ==
  /\ isSimulationRunning
  /\ \E d \in {FramePeriod - timers.frame} \cup
               (IF Gate THEN {IntervalDelay - timers.interval} ELSE {}) :
       /\ d > 0
       /\ Gate => timers.interval + d <= IntervalDelay
       /\ timers' =
            [interval |-> IF Gate THEN timers.interval + d ELSE 0,
             frame |-> Min(timers.frame + d, FramePeriod),
             idle |-> IF Gate /\ calls = << >> /\ stats.recalculations < MaxRecalc
                      THEN Min(timers.idle + d, IntervalDelay + FramePeriod)
                      ELSE 0]
  /\ UNCHANGED <<carVars, uiVars, searchVars>>
  /\ lastEvent' = "none"

\* requestAnimationFrame(animate): the frame arrives FramePeriod after the request.
FrameDue == timers.frame = FramePeriod /\ AnimationFrame

\* setInterval(..., 1000): the callback runs IntervalDelay after the effect set the
\* interval, or after its last run.
IntervalDue == timers.interval = IntervalDelay /\ IntervalFire

TimedUserEvent ==
  /\ events < TimedEvents
  /\ \/ ToggleSimulation
     \/ SetAlgorithm
     \/ CanvasClick
     \/ FindPathClick
     \/ resetSimulation

TimedNext ==
  \/ TimePasses
  \/ FrameDue
  \/ IntervalDue
  \/ ResumeSearch
  \/ TimedUserEvent

SpecTimed == Init /\ [][TimedNext]_vars

(* ------------------------------------------------------------------ *)
(* Routes, stated without the searches                                 *)
(* ------------------------------------------------------------------ *)

Traversable(g, p) == p \in AllPoints /\ ~g[p.y][p.x].isWall /\ ~g[p.y][p.x].hasCar

Adjacent(p, q) == Abs(p.x - q.x) + Abs(p.y - q.y) = 1

\* The cells a route reaches in one more 4-directional move from reached.
OneMove(g, reached) ==
  {q \in AllPoints : Traversable(g, q) /\ \E p \in reached : Adjacent(p, q)}

\* The least number of cells on a route from the cells of reached (routes of
\* n cells end there) to end, every cell after the first traversable; 0 if
\* there is none.
RECURSIVE CellsTo(_, _, _, _)
CellsTo(g, reached, end, n) ==
  IF end \in reached THEN n
  ELSE LET more == reached \cup OneMove(g, reached)
       IN  IF more = reached THEN 0 ELSE CellsTo(g, more, end, n + 1)

MinCells(g, start, end) == CellsTo(g, {start}, end, 1)

NoCars(g) == \A p \in AllPoints : ~g[p.y][p.x].hasCar

Answered == answers["bfs"] # Pending

PathLen(a) == Len(answers[a].path)

(* ------------------------------------------------------------------ *)
(* Claims about the searches                                           *)
(* ------------------------------------------------------------------ *)

\* C1: on a snapshot without cars whose start and end are joined by a route,
\* runBFS, runDijkstra and runAStar return a non-empty path with the minimum
\* number of cells of any 4-connected route, and runDFS returns a non-empty
\* path with at least that many cells.
C1_MinimalPaths ==
  (Answered /\ NoCars(probe.currentGrid)
     /\ MinCells(probe.currentGrid, probe.start, probe.end) > 0)
  => LET min == MinCells(probe.currentGrid, probe.start, probe.end)
     IN  /\ PathLen("bfs") = min
         /\ PathLen("dijkstra") = min
         /\ PathLen("astar") = min
         /\ PathLen("dfs") >= min
         /\ PathLen("dfs") > 0

\* A car-free snapshot with a route of four cells or more on which runDFS
\* returned a longer path than the three others.
C1_Witness ==
  /\ Answered
  /\ NoCars(probe.currentGrid)
  /\ MinCells(probe.currentGrid, probe.start, probe.end) >= 4
  /\ PathLen("astar") = MinCells(probe.currentGrid, probe.start, probe.end)
  /\ PathLen("dfs") > PathLen("bfs")

\* C6: when start differs from end and no route joins them, each of the four
\* searches returns an empty path and an exploredCount that is an integer
\* >= 0.
C6_NoRouteEmptyPath ==
  (Answered /\ probe.start # probe.end
     /\ MinCells(probe.currentGrid, probe.start, probe.end) = 0)
  => \A a \in Algorithms :
       /\ answers[a].path = << >>
       /\ answers[a].exploredCount \in Nat

\* A snapshot whose end is cut off by a car only, after the searches explored
\* several cells.
C6_Witness ==
  /\ Answered
  /\ probe.start # probe.end
  /\ MinCells(probe.currentGrid, probe.start, probe.end) = 0
  /\ ~NoCars(probe.currentGrid)
  /\ MinCells([py \in Rows |-> [px \in Cols |-> [probe.currentGrid[py][px] EXCEPT !.hasCar = FALSE]]],
              probe.start, probe.end) > 0
  /\ \A a \in Algorithms : answers[a].path = << >> /\ answers[a].exploredCount >= 3

\* C7: when start and end are the same point, each of the four searches
\* returns path = [start] and exploredCount = 1.
C7_SamePoint ==
  (Answered /\ probe.start = probe.end)
  => \A a \in Algorithms :
       /\ answers[a].path = << probe.start >>
       /\ answers[a].exploredCount = 1

\* C8: whenever runAStar and runBFS both return a non-empty path, runAStar's
\* exploredCount is at most runBFS's.
C8_AStarExploresNoMore ==
  (Answered /\ answers["astar"].path # << >> /\ answers["bfs"].path # << >>)
  => answers["astar"].exploredCount <= answers["bfs"].exploredCount

\* Both found a route between distinct points and runAStar skipped cells that
\* runBFS dequeued.
C8_Witness ==
  /\ Answered
  /\ probe.start # probe.end
  /\ answers["astar"].path # << >>
  /\ answers["bfs"].path # << >>
  /\ answers["astar"].exploredCount + 2 <= answers["bfs"].exploredCount

(* ------------------------------------------------------------------ *)
(* Claims about the motion tick                                        *)
(* ------------------------------------------------------------------ *)

\* C9: after any number of motion ticks from a spawn on road cells, the
\* floored position of every car is inside the grid and is a road cell, never
\* a wall cell.
C9_CarsStayOnRoad ==
  \A k \in 1 .. Len(cars) :
    /\ Floor(cars[k].x) \in Cols
    /\ Floor(cars[k].y) \in Rows
    /\ grid[Floor(cars[k].y)][Floor(cars[k].x)].isRoad
    /\ ~grid[Floor(cars[k].y)][Floor(cars[k].x)].isWall

\* A car that has driven to a position between cell corners and now heads
\* into a wall cell that lies inside the grid.
C9_Witness ==
  \E k \in 1 .. Len(cars) :
    /\ cars[k].x % Scale # 0
    /\ Floor(NewY(cars[k])) \in Rows
    /\ Floor(NewX(cars[k])) \in Cols
    /\ grid[Floor(NewY(cars[k]))][Floor(NewX(cars[k]))].isWall

\* Car k changed position in this step (its tick took a moving branch).
MovedInTick(k) == cars'[k].x # cars[k].x \/ cars'[k].y # cars[k].y

\* C10: after a motion tick, two distinct cars that both moved in it are not
\* within 0.8 of each other on both axes.
C10_MovedPairsApart ==
  [][\A i, j \in 1 .. Len(cars) :
       (i # j /\ Len(cars') = Len(cars) /\ MovedInTick(i) /\ MovedInTick(j))
       => ~(Within08(cars'[i].x, cars'[j].x) /\ Within08(cars'[i].y, cars'[j].y))]_vars

(* ------------------------------------------------------------------ *)
(* Claims about the controller                                         *)
(* ------------------------------------------------------------------ *)

\* C2: in every reachable state at most one pathfinding search is in
\* progress; a trigger that arrives while a search is in flight starts no
\* second search.
C2_SingleFlight == Len(calls) <= 1

\* An interval trigger arrived while the only search was in flight.
C2_Witness == Len(calls) = 1 /\ calls[1].skipped /\ isPathfinding

\* C3: when the algorithm was switched or reset was pressed while a search was
\* in flight, the completion of that search changes neither the current path
\* nor any field of stats.
C3_StaleResultDiscarded ==
  [][\A i \in 1 .. Len(calls) :
       (calls[i].stale /\ calls' = RemoveAt(calls, i))
       => (currentPath' = currentPath /\ stats' = stats)]_vars

\* C4: the hasCar overlay of a search is computed once, from the car positions
\* at the moment the search starts, and every traversability test of the
\* search reads that same obstacle map, whatever motion ticks interleave.
C4_FrozenObstacleMap ==
  \A i \in 1 .. Len(calls) :
    /\ HasCarCells(calls[i].currentGrid) = calls[i].carCellsAtStart
    /\ calls[i].reads = {calls[i].carCellsAtStart}

\* A search that was resumed after the cars had moved to other cells than
\* the ones they held when it started.
C4_Witness ==
  \E i \in 1 .. Len(calls) :
    /\ calls[i].awaits >= 1
    /\ CarCells(cars) # calls[i].carCellsAtStart
    /\ calls[i].carCellsAtStart # {}

(* ------------------------------------------------------------------ *)
(* C5: the periodic search                                             *)
(* ------------------------------------------------------------------ *)

\* C5: while isSimulationRunning with both points set and no search in
\* flight, a search starts within IntervalDelay time units of the later of
\* the gate becoming true, the last user event and the previous search
\* completing: the time for which a search has been due never exceeds
\* IntervalDelay, moveCars ticking on every animation frame or not.
C5_PeriodicSearch == timers.idle <= IntervalDelay

(* ------------------------------------------------------------------ *)
(* Claims about point selection                                        *)
(* ------------------------------------------------------------------ *)

\* C11: a canvas click on a wall cell, or on the cell that is the floored
\* position of some car at that moment, changes nothing: start point, end
\* point, current path, stats and the controller state stay as they were;
\* and a start or end point that a step sets is a cell that is not a wall and
\* holds no car in the state the step starts from.
C11_InvalidSelectionIgnored ==
  [][/\ \A p \in AllPoints :
          (handleCanvasClick(p.x, p.y) /\ (grid[p.y][p.x].isWall \/ CarAt(cars, p.x, p.y)))
          => UNCHANGED <<startPoint, endPoint, currentPath, stats, algorithm,
                         isSimulationRunning, isPathfinding, calls, grid, cars>>
     /\ \A q \in {startPoint', endPoint'} \ {startPoint, endPoint, null} :
          /\ q \in AllPoints
          /\ grid[q.y][q.x].isRoad
          /\ ~grid[q.y][q.x].isWall
          /\ ~CarAt(cars, q.x, q.y)]_vars

\* The step just taken was a click on a cell that held a car, with the start
\* point already set and the end point not yet: the end point is still unset.
C11_Witness == lastEvent = "car" /\ startPoint # null /\ endPoint = null

\* C12: a valid selection with no start set sets start only; with start set
\* and end unset it sets end only; with both set it sets start to the new
\* point, unsets end and empties the current path.
C12_ThreeClickCycle ==
  [][\A p \in AllPoints :
       (handleCanvasClick(p.x, p.y) /\ ~grid[p.y][p.x].isWall /\ ~CarAt(cars, p.x, p.y))
       => IF startPoint = null
          THEN startPoint' = p /\ UNCHANGED <<endPoint, currentPath>>
          ELSE IF endPoint = null
          THEN endPoint' = p /\ UNCHANGED <<startPoint, currentPath>>
          ELSE startPoint' = p /\ endPoint' = null /\ currentPath' = << >>]_vars

\* The step just taken was a third selection made after a search had found a
\* path between the first two: start is set, end unset and the path empty.
C12_Witness ==
  /\ lastEvent = "restart"
  /\ stats.pathLength >= 2
  /\ startPoint # null
  /\ endPoint = null
  /\ currentPath = << >>

(* ------------------------------------------------------------------ *)
(* Claims about stats and reset                                        *)
(* ------------------------------------------------------------------ *)

\* C13: a search that completes increments stats.recalculations by exactly 1,
\* replaces stats.nodesExplored and stats.pathLength by its exploredCount and
\* the length of its path and sets the current path to its path; no step
\* other than a completion or a reset changes stats; so
\* stats.recalculations is the number of searches completed since the last
\* reset.
C13_StatsPerCompletion ==
  [][/\ completed'.count = completed.count + 1
          => /\ currentPath' = completed'.path
             /\ stats'.recalculations = stats.recalculations + 1
             /\ stats'.nodesExplored = completed'.exploredCount
             /\ stats'.pathLength = Len(completed'.path)
     /\ stats' # stats => (completed'.count = completed.count + 1 \/ lastEvent' = "reset")
     /\ stats'.recalculations = completed'.count]_vars

\* Two searches have completed since the last reset, the second with a path.
C13_Witness ==
  /\ completed.count = 2
  /\ stats.recalculations = 2
  /\ completed.path # << >>
  /\ currentPath = completed.path

\* The cells of a grid, whatever its size.
CellsOf(g) == {Point(px, py) : px \in DOMAIN g[0], py \in DOMAIN g}

RoadsOf(g) == {p \in CellsOf(g) : g[p.y][p.x].isRoad}

\* The road cells one 4-directional move away from a cell of frontier.
RoadMoves(g, frontier) ==
  {q \in UNION {{Point(p.x + 1, p.y), Point(p.x - 1, p.y), Point(p.x, p.y + 1),
                  Point(p.x, p.y - 1)} : p \in frontier} :
     /\ q.y \in DOMAIN g
     /\ q.x \in DOMAIN g[q.y]
     /\ g[q.y][q.x].isRoad}

\* The road cells reachable by road-only moves from the cells of reached;
\* frontier holds the cells of reached whose moves are still to be taken.
RECURSIVE RoadReach(_, _, _)
RoadReach(g, reached, frontier) ==
  IF frontier = {} THEN reached
  ELSE LET new == RoadMoves(g, frontier) \ reached
       IN  RoadReach(g, reached \cup new, new)

\* Every road cell is reachable from every other: moves can be taken both
\* ways, so it is enough that one road cell reaches them all.
RoadConnected(g) ==
  LET roads == RoadsOf(g)
  IN  roads # {} => (LET p == CHOOSE q \in roads : TRUE
                     IN  RoadReach(g, {p}, {p}) = roads)

\* The grid invariants: every cell is exactly one of wall or road, and every
\* road cell is reachable from every other by road-only moves.
GridInvariant(g) ==
  /\ \A p \in CellsOf(g) : g[p.y][p.x].isWall # g[p.y][p.x].isRoad
  /\ RoadConnected(g)

\* The spawn invariants: at most max cars, each at the corner of a road cell,
\* no two on the same cell, no two with the same id.
SpawnInvariant(g, cs, max) ==
  /\ Len(cs) <= max
  /\ \A k \in 1 .. Len(cs) :
       /\ cs[k].x % Scale = 0
       /\ cs[k].y % Scale = 0
       /\ Point(Floor(cs[k].x), Floor(cs[k].y)) \in RoadsOf(g)
  /\ \A i, j \in 1 .. Len(cs) :
       i # j => /\ cs[i].id # cs[j].id
                /\ <<cs[i].x, cs[i].y>> # <<cs[j].x, cs[j].y>>

\* C14: from any state, Idle or Running, with or without a search in flight,
\* reset leaves the controller Idle with the start point unset, the end point
\* unset, the current path empty and the four fields of stats equal to 0,
\* and the grid and the cars it stores satisfy the grid and spawn invariants.
C14_ResetClearsAll ==
  [][lastEvent' = "reset"
       => /\ ~isSimulationRunning'
          /\ startPoint' = null
          /\ endPoint' = null
          /\ currentPath' = << >>
          /\ stats'.nodesExplored = 0
          /\ stats'.pathLength = 0
          /\ stats'.executionTime = 0
          /\ stats'.recalculations = 0
          /\ GridInvariant(grid')
          /\ SpawnInvariant(grid', cars', CtlCars)]_vars

\* The step just taken was a reset pressed while a search was in flight that
\* an interval trigger had found running: the search is still suspended and
\* points, path and stats are cleared.
C14_Witness ==
  /\ lastEvent = "reset"
  /\ Len(calls) = 1
  /\ calls[1].stale
  /\ calls[1].skipped
  /\ startPoint = null
  /\ endPoint = null
  /\ currentPath = << >>
  /\ stats = ZeroStats
  /\ ~isSimulationRunning

(* ------------------------------------------------------------------ *)
(* Claims about the grid and the spawn                                 *)
(* ------------------------------------------------------------------ *)

\* C15: in the grid initializeCityGrid builds for 60 rows and 120 columns,
\* every cell is exactly one of wall or road and every road cell is
\* reachable from every other road cell by 4-directional moves over road
\* cells only.
C15_CityGridConnected ==
  (grid # << >> /\ probe.rows = CityRows /\ probe.cols = CityCols)
  => /\ DOMAIN grid = 0 .. (CityRows - 1)
     /\ \A py \in DOMAIN grid : DOMAIN grid[py] = 0 .. (CityCols - 1)
     /\ GridInvariant(grid)

\* The 60 x 120 grid has been built; it has two-cell bands, single-cell
\* connectors and walls between them.
C15_Witness ==
  /\ grid # << >>
  /\ probe.rows = CityRows
  /\ probe.cols = CityCols
  /\ grid[8][0].isRoad /\ grid[9][0].isRoad /\ grid[10][0].isWall
  /\ grid[4][0].isRoad /\ grid[5][0].isWall
  /\ grid[0][4].isRoad /\ grid[0][5].isWall
  /\ Cardinality(RoadsOf(grid)) > CityCols

\* C16: whatever the random draws, generateCars returns at most the largest
\* numCars (75 in the source, SpawnMax here) cars, each on a road cell, no
\* two on the same cell and no two with the same id.
C16_SpawnDistinct ==
  cars # << >> => SpawnInvariant(grid, cars, SpawnMax)

\* A spawn of three slots in which the second slot drew the first car's cell
\* ten times and was skipped: two cars, with the ids 0 and 2.
C16_Witness ==
  /\ cars # << >>
  /\ "numCars" \in DOMAIN probe
  /\ probe.numCars = 3
  /\ Len(cars) = 2
  /\ cars[1].id = 0
  /\ cars[2].id = 2
  /\ probe.slots[2].draws[maxAttempts] = probe.slots[1].draws[1]

(* ------------------------------------------------------------------ *)
(* C17: termination                                                    *)
(* ------------------------------------------------------------------ *)

\* C17: on every snapshot and for every start and end, each of the four
\* searches, once called and resumed fairly at its suspension points,
\* eventually returns; what it returns is either the path rebuilt from the
\* parent links from end back to start, or the empty path.
C17_SearchesReturn ==
  /\ (calls # << >>) ~> (calls = << >> /\ completed.count = 1)
  /\ [][/\ \A i \in 1 .. Len(calls) :
            calls' = RemoveAt(calls, i)
            => \/ completed'.path = << >>
               \/ /\ completed'.path = WalkParents(calls[i].search.parent, calls[i].end)
                  /\ Head(completed'.path) = calls[i].start
                  /\ completed'.path[Len(completed'.path)] = calls[i].end
        /\ (calls = << >> /\ completed'.count = 1)
            => \/ completed'.path = << >>
               \/ /\ completed'.path = << startPoint' >>
                  /\ startPoint' = endPoint']_vars

\* A search that was resumed three times or more has returned a path of
\* three cells or more around a car.
C17_Witness ==
  /\ calls = << >>
  /\ completed.count = 1
  /\ stats.executionTime >= 3
  /\ Len(completed.path) >= 3
  /\ cars # << >>
  /\ completed.path[1] = startPoint
  /\ completed.path[Len(completed.path)] = endPoint

(* ------------------------------------------------------------------ *)
(* C18: the order of the neighbours                                    *)
(* ------------------------------------------------------------------ *)

\* East (x+1), South (y+1), West (x-1), North (y-1) of a cell.
EastSouthWestNorth(node) ==
  << Point(node.x + 1, node.y), Point(node.x, node.y + 1),
     Point(node.x - 1, node.y), Point(node.x, node.y - 1) >>

\* C18: getNeighbors returns the traversable in-bounds neighbours of a cell
\* in the order East, South, West, North, and where start has East and South
\* free and end is the cell South-East of start, runBFS goes by the
\* neighbour it enqueued first (East) and runDFS by the one it pushed last
\* of the two (South) when start has no other neighbour.
C18_NeighborOrder ==
  Answered
  => LET g == probe.currentGrid
         s == probe.start
         free == SelectSeq(EastSouthWestNorth(s), LAMBDA p : InBoundsAndFree(g, p.x, p.y))
     IN  /\ getNeighbors(s, g) = free
         /\ (free = << Point(s.x + 1, s.y), Point(s.x, s.y + 1) >>
               /\ probe.end = Point(s.x + 1, s.y + 1)
               /\ ~g[s.y][s.x].hasCar
               /\ InBoundsAndFree(g, s.x + 1, s.y + 1))
            => /\ answers["bfs"].path = << s, Point(s.x + 1, s.y), probe.end >>
               /\ answers["dfs"].path = << s, Point(s.x, s.y + 1), probe.end >>

(* ------------------------------------------------------------------ *)
(* C19: the collision branch of a tick                                 *)
(* ------------------------------------------------------------------ *)

\* The candidate cell of cars[k] is in bounds and not a wall, and its
\* candidate position is within 0.8 on both axes of another car.
Blocked(k) ==
  LET car == cars[k]
      cx == Floor(NewX(car))
      cy == Floor(NewY(car))
  IN  /\ cx \in Cols
      /\ cy \in Rows
      /\ ~grid[cy][cx].isWall
      /\ \E j \in 1 .. Len(cars) :
           /\ j # k
           /\ Within08(cars[j].x, NewX(car))
           /\ Within08(cars[j].y, NewY(car))

\* C19: in a tick, a car whose candidate cell is in bounds and not a wall
\* and whose candidate position is within 0.8 on both axes of another car
\* keeps its position; with stuckTime > 20 its direction becomes
\* (direction + 1) % 4 or (direction + 2) % 4 and its stuckTime 0, otherwise
\* its direction is unchanged and its stuckTime is one more.
C19_CollisionBranch ==
  [][\A k \in 1 .. Len(cars) :
       Blocked(k)
       => /\ cars'[k].x = cars[k].x
          /\ cars'[k].y = cars[k].y
          /\ IF cars[k].stuckTime > 20
             THEN /\ cars'[k].direction \in {(cars[k].direction + 1) % 4,
                                             (cars[k].direction + 2) % 4}
                  /\ cars'[k].stuckTime = 0
             ELSE /\ cars'[k].direction = cars[k].direction
                  /\ cars'[k].stuckTime = cars[k].stuckTime + 1]_vars

\* A car has been held by another car for 21 ticks in a row and is still
\* blocked by it: the next tick turns it.
C19_Witness ==
  \E k \in 1 .. Len(cars) :
    /\ cars[k].stuckTime = 21
    /\ Blocked(k)

(* ------------------------------------------------------------------ *)
(* C20: a tick is a simultaneous update                                *)
(* ------------------------------------------------------------------ *)

\* The cars after the cars of prevCars were processed one at a time in the
\* order order[i], order[i + 1], ...: each car's new record is made from its
\* own record in prevCars, the grid, its draws and the cars of prevCars.
RECURSIVE ProcessedFrom(_, _, _, _, _, _)
ProcessedFrom(order, i, done, prevCars, g, rnds) ==
  IF i > Len(prevCars) THEN done
  ELSE ProcessedFrom(order, i + 1,
         [done EXCEPT ![order[i]] = MoveCar(prevCars[order[i]], prevCars, g, rnds[order[i]])],
         prevCars, g, rnds)

\* C20: the cars after a tick are, for the draws of the tick, what
\* processing the pre-tick cars in any order gives, each car from its own
\* pre-tick record, the grid, its draws and the pre-tick cars; the tick
\* keeps the number of cars and every car's id.
C20_SimultaneousUpdate ==
  [][cars' # cars
     => /\ Len(cars') = Len(cars)
        /\ \A k \in 1 .. Len(cars) : cars'[k].id = cars[k].id
        /\ \E rnds \in TickDraws(cars, grid) :
             \A order \in Permutations(1 .. Len(cars)) :
               cars' = ProcessedFrom(order, 1, cars, cars, grid, rnds)]_vars

\* One of two cars was held for one tick by a car that moved away in that
\* same tick: its way is free now, and it would have moved had the other
\* car's new position been read.
C20_Witness ==
  /\ Len(cars) = 2
  /\ \E k \in 1 .. 2 :
       /\ cars[k].stuckTime = 1
       /\ ~OffGridOrWall(grid, Floor(NewX(cars[k])), Floor(NewY(cars[k])))
       /\ ~Collision(cars[k], cars)

(* ------------------------------------------------------------------ *)
(* C21: when a car slot is skipped                                     *)
(* ------------------------------------------------------------------ *)

\* The cells of the cars placed for the slots before slot i.
PlacedBefore(i) ==
  {Key(Point(Floor(cars[k].x), Floor(cars[k].y))) : k \in {j \in 1 .. Len(cars) : cars[j].id < i}}

\* The draws of slot i, among its maxAttempts draws, that land on a cell no
\* earlier slot of the batch has placed a car on.
FreeDraws(i) ==
  {k \in 1 .. maxAttempts :
     Key(RoadCellsOf(grid)[probe.slots[i + 1].draws[k]]) \notin PlacedBefore(i)}

\* C21: a car slot is skipped if and only if every one of its 10 draws
\* landed on a cell occupied by a car placed earlier in the batch; a slot
\* with a draw on a free road cell, the 10th included, places a car on the
\* cell of its first such draw.
C21_SkipOnlyWhenAllOccupied ==
  cars # << >>
  => \A i \in 0 .. (probe.numCars - 1) :
       LET placed == {k \in 1 .. Len(cars) : cars[k].id = i}
           free == FreeDraws(i)
       IN  /\ (placed = {}) <=> (free = {})
           /\ free # {}
              => \E k \in placed :
                   LET d == CHOOSE f \in free : \A o \in free : f <= o
                       cell == RoadCellsOf(grid)[probe.slots[i + 1].draws[d]]
                   IN  /\ Floor(cars[k].x) = cell.x
                       /\ Floor(cars[k].y) = cell.y

(* ------------------------------------------------------------------ *)
(* C22: the shape of a returned path                                   *)
(* ------------------------------------------------------------------ *)

\* probe.currentGrid with every hasCar flag cleared.
WithoutCars ==
  [py \in Rows |-> [px \in Cols |-> [probe.currentGrid[py][px] EXCEPT !.hasCar = FALSE]]]

\* C22: every non-empty path a search returns begins at start, ends at end,
\* has consecutive cells 4-adjacent, holds no cell twice, and each of its
\* cells other than start is neither a wall nor a cell with hasCar in the
\* snapshot the search was given.
C22_PathWellFormed ==
  Answered
  => \A a \in Algorithms :
       LET path == answers[a].path
           g == probe.currentGrid
       IN  path # << >>
           => /\ path[1] = probe.start
              /\ path[Len(path)] = probe.end
              /\ \A k \in 1 .. (Len(path) - 1) :
                   Abs(path[k].x - path[k + 1].x) + Abs(path[k].y - path[k + 1].y) = 1
              /\ \A k, m \in 1 .. Len(path) : path[k] = path[m] => k = m
              /\ \A k \in 2 .. Len(path) :
                   /\ path[k].x \in Cols
                   /\ path[k].y \in Rows
                   /\ ~g[path[k].y][path[k].x].isWall
                   /\ ~g[path[k].y][path[k].x].hasCar

\* Every search returned a path, and a car on the shortest route made the
\* shortest-path searches go round it.
C22_Witness ==
  /\ Answered
  /\ ~NoCars(probe.currentGrid)
  /\ \A a \in Algorithms : PathLen(a) >= 4
  /\ PathLen("bfs") > MinCells(WithoutCars, probe.start, probe.end)

(* ------------------------------------------------------------------ *)
(* C23: runDijkstra and runBFS                                         *)
(* ------------------------------------------------------------------ *)

\* runBFS with the locals b and runDijkstra with the locals d, taken loop
\* turn by loop turn: at every turn both frontiers are empty or the cell
\* runDijkstra takes from its sorted priorityQueue is the cell runBFS shifts
\* from its queue and is not in runDijkstra's visited set; both return at
\* the same turn with the same path and exploredCount.
RECURSIVE SameDequeues(_, _, _, _)
SameDequeues(b, d, currentGrid, end) ==
  IF b.returned \/ d.returned
  THEN b.returned /\ d.returned /\ Result(b) = Result(d)
  ELSE /\ (b.frontier = << >>) <=> (d.frontier = << >>)
       /\ (b.frontier # << >> /\ d.frontier # << >>)
          => LET sorted == StableSort(d.frontier, [i \in 1 .. Len(d.frontier) |-> d.frontier[i].dist])
                 current == Head(sorted)
             IN  /\ Point(current.x, current.y) = Head(b.frontier)
                 /\ Key(current) \notin d.visited
       /\ SameDequeues(BFSStep(b, currentGrid, end), DijkstraStep(d, currentGrid, end),
                       currentGrid, end)

\* C23: on every snapshot and for every start and end, runDijkstra and
\* runBFS dequeue the same cells in the same order, runDijkstra never takes
\* a cell it has already visited, and both return the same path and the
\* same exploredCount.
C23_DijkstraIsBFS ==
  Answered
  => /\ answers["dijkstra"] = answers["bfs"]
     /\ SameDequeues(BFSStart(probe.start), DijkstraStart(probe.start),
                     probe.currentGrid, probe.end)

\* Both searches crossed an open 2 x 2 block, whose far corner is reached
\* from two cells at the same distance, and returned a path of four cells
\* or more.
C23_Witness ==
  /\ Answered
  /\ answers["dijkstra"] = answers["bfs"]
  /\ PathLen("dijkstra") >= 4
  /\ answers["dijkstra"].exploredCount >= 6
  /\ \E p \in AllPoints :
       /\ \A q \in {p, Point(p.x + 1, p.y), Point(p.x, p.y + 1), Point(p.x + 1, p.y + 1)} :
            Traversable(probe.currentGrid, q)
       /\ \E k \in 1 .. PathLen("bfs") : answers["bfs"].path[k] = Point(p.x + 1, p.y + 1)
       /\ \E k \in 1 .. PathLen("bfs") : answers["bfs"].path[k] = p

(* ------------------------------------------------------------------ *)
(* C24: the displayed path and the current points                      *)
(* ------------------------------------------------------------------ *)

\* C24: in every reachable state, a non-empty currentPath comes with
\* startPoint and endPoint both set, begins at startPoint and ends at
\* endPoint.
C24_PathMatchesPoints ==
  currentPath # << >>
  => /\ startPoint # null
     /\ endPoint # null
     /\ currentPath[1] = startPoint
     /\ currentPath[Len(currentPath)] = endPoint

====
